---- MODULE Spec2Model ----
(***************************************************************************)
(* A model of bambu_auto_pause.py: the command stream scanner              *)
(* (ToolChange.iter_from_gcode), the filament grouping (FilamentGrouping), *)
(* the AMS occupancy simulator (GCode.iter_manual_toolchanges), the        *)
(* partition generator (unique_k_partition), the grouping optimizer        *)
(* (GCode.find_best_mapping), the block transformer                        *)
(* (paused_filament_change) and the stream rewrite (GCode.write).          *)
(*                                                                         *)
(* Conventions.  A Filament is its id (Filament.__eq__ compares ids only). *)
(* Python's None is None (-1) where the value is an int (an index, a       *)
(* filament, a count, max_group_size) and the empty sequence <<>> where    *)
(* the value is an object, the object x being <<x>>.  Positions in the     *)
(* command stream keep Python's 0-based values: line idx of gcode is       *)
(* gcode[idx + 1].  A command line is a record [op, arg]:                  *)
(*    "; CP TOOLCHANGE START"   [op |-> "START", arg |-> 0]                *)
(*    the same with text after  [op |-> "START", arg |-> 1]                *)
(*    "; CP TOOLCHANGE END"     [op |-> "END",   arg |-> 0]  (1: text after)*)
(*    "M73 L<n>"                [op |-> "M73",   arg |-> n]                *)
(*    "T<n>"                    [op |-> "T",     arg |-> n]                *)
(*    "M620 S<n>A"              [op |-> "M620A", arg |-> n]                *)
(*    "M620.1 E F523 T240"      [op |-> "M620.1", arg |-> 0]               *)
(*    "M400 U1"                 [op |-> "M400U1", arg |-> 0]               *)
(*    "M620 S255", "M621 S255", "M400", "G1 ..." and any other line:       *)
(*    their own op, matched by none of the program's patterns.            *)
(***************************************************************************)
EXTENDS Integers, Sequences, FiniteSets, TLC

VARIABLES
    phase,              \* which operation the program is in
    gcode,              \* GCode.gcode: the command lines
    filament_ids,       \* plate_metadata['filament_ids']
    toolchanges,        \* GCode.toolchanges
    ams_size,           \* GCode.ams_size
    filament_grouping,  \* the FilamentGrouping in use (its _groups)
    ams,                \* the simulator's slot array
    pos,                \* loop iterations the simulator has completed
    manual,             \* the ManualToolChange records yielded so far
    raised,             \* the exception that ended the operation, or "none"
    max_group_size,     \* find_best_mapping's argument
    yielded,            \* partitions consumed from unique_k_partition so far
    best_combination,   \* find_best_mapping's best_combination
    best_manual_changes,\* find_best_mapping's best_manual_changes
    result,             \* what the operation returned
    data,               \* GCode.write's rewritten command lines
    grouped_filaments,  \* the groups given on the command line (lists of ids)
    filament_change_gcode, \* paused_filament_change's argument
    toolchange_conflicts,  \* list_conflicts' dict, as its items in order
    first_layer,        \* the open conflict range: its first layer,
    last_layer,         \*   its last layer
    conflicts,          \*   and its pairs
    consumed,           \* items of toolchange_conflicts the report has consumed
    logged              \* the conflict ranges logged so far

\* the command line and the conflict report
main_vars == <<grouped_filaments, filament_change_gcode, toolchange_conflicts,
               first_layer, last_layer, conflicts, consumed, logged>>

vars == <<phase, gcode, filament_ids, toolchanges, ams_size, filament_grouping,
          ams, pos, manual, raised, max_group_size, yielded, best_combination,
          best_manual_changes, result, data, main_vars>>

\* ---------------------------------------------------------------- bounds

NumFilaments == 3     \* filaments of a print job: ids 0..NumFilaments-1
MaxChanges == 4       \* tool changes of a command stream
MaxAms == 3           \* AMS slots
MaxCollection == 4    \* length of a collection given to unique_k_partition
MaxItems == 3         \* blocks and single lines of a rewritten command stream
MaxMembers == 4       \* ids in the groups given on the command line
MaxBlockLines == 4    \* lines of a tool-change block between its markers
MaxLayered == 4       \* tool changes of a command stream with layer markers

\* ------------------------------------------------------------- constants

None == -1
DefaultAmsSize == 4
\* gcode.find_best_mapping(2)
MainMaxGroupSize == 2

\* --------------------------------------------------------------- helpers

Some(x) == <<x>>

Min2(a, b) == IF a <= b THEN a ELSE b

Range(s) == {s[i] : i \in DOMAIN s}

\* Python's `x in list`
In(x, s) == \E i \in DOMAIN s : s[i] = x

\* Python's list slice s[a:b] with 0 <= a, 0-based, end exclusive
Slice(s, a, b) == SubSeq(s, a + 1, Min2(b, Len(s)))

RECURSIVE Flatten(_)
Flatten(ss) == IF ss = <<>> THEN <<>> ELSE Head(ss) \o Flatten(Tail(ss))

\* Python's sorted(s, key=...): stable, ascending; keys[i] is the key of s[i]
SortedBy(s, keys) ==
    [r \in 1..Len(s) |->
        s[CHOOSE i \in DOMAIN s :
            Cardinality({j \in DOMAIN s :
                \/ keys[j] < keys[i]
                \/ (keys[j] = keys[i] /\ j < i)}) = r - 1]]

\* ----------------------------------------------------------------- lines

Line(op, arg) == [op |-> op, arg |-> arg]

START == Line("START", 0)
END == Line("END", 0)
pause_gcode == Line("M400U1", 0)
WRAP == Line("M620.1", 0)

\* the T codes the scanner ignores: '1000', '1100', '255'
Sentinels == {1000, 1100, 255}

\* ------------------------------------------------------------ ToolChange

ToolChange(layer, current_filament, next_filament, index, start_index, end_index) ==
    [layer |-> layer, current_filament |-> current_filament,
     next_filament |-> next_filament, index |-> index,
     start_index |-> start_index, end_index |-> end_index]

\* next((idx for idx, line in enumerate(gcode[idx:], start=idx)
\*       if line.startswith("; CP TOOLCHANGE END")), None)
FindEnd(g, idx) ==
    LET hits == {j \in idx..(Len(g) - 1) : g[j + 1].op = "END"}
    IN IF hits = {} THEN None ELSE CHOOSE j \in hits : \A h \in hits : j <= h

\* ToolChange.iter_from_gcode, from line idx on, collected into a list:
\* [toolchanges, error], error the exception that ended the scan.
RECURSIVE ScanFrom(_, _, _, _, _, _)
ScanFrom(g, colors, idx, current_filament, current_layer, current_start_index) ==
    IF idx >= Len(g) THEN [toolchanges |-> <<>>, error |-> "none"]
    ELSE
    LET line == g[idx + 1]
        start == IF line.op = "START" THEN idx ELSE current_start_index
    IN  IF line.op = "M73"
        THEN ScanFrom(g, colors, idx + 1, current_filament, line.arg, start)
        ELSE IF line.op # "T" \/ line.arg \in Sentinels
        THEN ScanFrom(g, colors, idx + 1, current_filament, current_layer, start)
        ELSE IF line.arg \notin colors
        THEN [toolchanges |-> <<>>, error |-> "KeyError"]
        ELSE
        LET end_index == FindEnd(g, idx)
        IN  IF \/ end_index = None
               \/ (start # None /\ g[start + 1] # START)
               \/ g[end_index + 1] # END
            THEN [toolchanges |-> <<>>, error |-> "ValueError"]
            ELSE
            LET rest == ScanFrom(g, colors, idx + 1, line.arg, current_layer, start)
            IN  [toolchanges |->
                     <<ToolChange(current_layer, current_filament, line.arg,
                                  idx, start, end_index)>> \o rest.toolchanges,
                 error |-> rest.error]

iter_from_gcode(g, colors) == ScanFrom(g, colors, 0, None, 0, None)

\* ------------------------------------------------------ FilamentGrouping

\* the duplicate check of FilamentGrouping.__init__
HasDuplicates(groups) ==
    LET flat == Flatten(groups)
    IN  \E i, j \in DOMAIN flat : i < j /\ flat[i] = flat[j]

\* the constructor with the outer sort by size, then by least id
FilamentGroupingByMinId(groups) ==
    LET inner == [i \in DOMAIN groups |-> SortedBy(groups[i], groups[i])]
    IN  SortedBy(inner, [i \in DOMAIN inner |-> Len(inner[i]) * 1000 + inner[i][1]])

\* sorted([sorted(list(group), key=lambda x: x.id) for group in groups], key=len)
FilamentGrouping(groups) ==
    LET inner == [i \in DOMAIN groups |-> SortedBy(groups[i], groups[i])]
    IN  SortedBy(inner, [i \in DOMAIN inner |-> Len(inner[i])])

\* FilamentGrouping.from_list
from_list(groups, filaments) ==
    LET used == Range(Flatten(groups))
        rest == SelectSeq(filaments, LAMBDA f : f \notin used)
    IN  FilamentGrouping(groups \o [i \in DOMAIN rest |-> <<rest[i]>>])

\* the exception from_list ends with: all_filaments[i] of an id the metadata
\* does not list, then the duplicate check of the constructor on `base`
from_list_error(groups, filaments) ==
    LET used == Range(Flatten(groups))
        rest == SelectSeq(filaments, LAMBDA f : f \notin used)
        base == groups \o [i \in DOMAIN rest |-> <<rest[i]>>]
    IN  IF \E id \in used : id \notin Range(filaments) THEN "KeyError"
        ELSE IF HasDuplicates(base) THEN "ValueError: multiple groups"
        ELSE "none"

is_grouped(groups, left, right) ==
    \E i \in DOMAIN groups : In(left, groups[i]) /\ In(right, groups[i])

\* the first group holding the filament, <<group>>, or <<>> for None
find_filament_group(groups, filament) ==
    LET hits == {i \in DOMAIN groups : In(filament, groups[i])}
    IN  IF hits = {} THEN <<>>
        ELSE Some(groups[CHOOSE i \in hits : \A h \in hits : i <= h])

\* find_index raises ValueError when the filament is in no group
NotInAnyGroup == -2

\* find_index that returns the first occupied slot, whatever group its
\* occupant is in
find_index_first_slot(groups, filaments, filament) ==
    IF find_filament_group(groups, filament) = <<>> THEN NotInAnyGroup
    ELSE IF filaments = <<>> THEN None ELSE 0

\* find_index that finds only the filament itself, not a filament of its group
find_index_same_filament(groups, filaments, filament) ==
    IF find_filament_group(groups, filament) = <<>> THEN NotInAnyGroup
    ELSE LET hits == {i \in DOMAIN filaments : filaments[i] = filament}
         IN  IF hits = {} THEN None
             ELSE (CHOOSE i \in hits : \A h \in hits : i <= h) - 1

find_index(groups, filaments, filament) ==
    LET filament_group == find_filament_group(groups, filament)
    IN  IF filament_group = <<>> THEN NotInAnyGroup
        ELSE LET hits == {i \in DOMAIN filaments : In(filaments[i], filament_group[1])}
             IN  IF hits = {} THEN None
                 ELSE (CHOOSE i \in hits : \A h \in hits : i <= h) - 1

\* ----------------------------------------------------------- simulator

\* is_manual without its `not in ams` test
is_manual_any_slot(tc, slots, groups) ==
    find_index(groups, slots, tc.next_filament) \notin {None, NotInAnyGroup}

\* ToolChange.is_manual; where find_index raises, nothing is yielded
is_manual(tc, slots, groups) ==
    /\ ~In(tc.next_filament, slots)
    /\ find_index(groups, slots, tc.next_filament) \notin {None, NotInAnyGroup}

\* is_conflict without its is_grouped test
is_conflict_any_current(tc, groups) == tc.current_filament # None

is_conflict(tc, groups) ==
    IF tc.current_filament = None THEN FALSE
    ELSE is_grouped(groups, tc.current_filament, tc.next_filament)

ManualToolChange(tc, slots) == [toolchange |-> tc, ams |-> slots]

\* the yield whose record holds the slot array as the update leaves it
YieldAfterUpdate(records, tc, slots, groups) ==
    LET mate == find_index(groups, slots, tc.next_filament)
    IN  IF mate # NotInAnyGroup /\ mate # None /\ ~In(tc.next_filament, slots)
        THEN Append(records,
                    ManualToolChange(tc, [slots EXCEPT ![mate + 1] = tc.next_filament]))
        ELSE records

\* `yield ManualToolChange(toolchange, list(ams))`: the records yielded so far
\* after one more loop iteration.  list(ams) is a copy, so the records already
\* yielded are not touched by the assignment to the slot array that follows.
Yield(records, tc, slots, groups) ==
    IF is_manual(tc, slots, groups)
    THEN Append(records, ManualToolChange(tc, slots))
    ELSE records

\* Transition variants: a full array evicts its first slot instead of failing;
\* the capacity test is dropped; the capacity test fires one slot early.
TransitionEvicts(slots, tc, groups, size) ==
    LET next_filament_index == find_index(groups, slots, tc.next_filament)
    IN  IF next_filament_index = None
        THEN IF Len(slots) = size /\ size > 0
             THEN [ams |-> [slots EXCEPT ![1] = tc.next_filament], raised |-> "none"]
             ELSE [ams |-> Append(slots, tc.next_filament), raised |-> "none"]
        ELSE [ams |-> [slots EXCEPT ![next_filament_index + 1] = tc.next_filament],
              raised |-> "none"]

TransitionNoLimit(slots, tc, groups, size) ==
    LET next_filament_index == find_index(groups, slots, tc.next_filament)
    IN  IF next_filament_index = None
        THEN [ams |-> Append(slots, tc.next_filament), raised |-> "none"]
        ELSE [ams |-> [slots EXCEPT ![next_filament_index + 1] = tc.next_filament],
              raised |-> "none"]

TransitionFullEarly(slots, tc, groups, size) ==
    LET next_filament_index == find_index(groups, slots, tc.next_filament)
    IN  IF next_filament_index = None
        THEN IF Len(slots) + 1 = size
             THEN [ams |-> slots, raised |-> "ValueError: capacity"]
             ELSE [ams |-> Append(slots, tc.next_filament), raised |-> "none"]
        ELSE [ams |-> [slots EXCEPT ![next_filament_index + 1] = tc.next_filament],
              raised |-> "none"]

\* the slot update that never overwrites: the next filament takes a new slot
\* also when a filament of its group is resident
TransitionAlwaysAppends(slots, tc, groups, size) ==
    IF Len(slots) = size
    THEN [ams |-> slots, raised |-> "ValueError: capacity"]
    ELSE [ams |-> Append(slots, tc.next_filament), raised |-> "none"]

\* The slot update of one loop iteration of iter_manual_toolchanges:
\* [ams, raised].
Transition(slots, tc, groups, size) ==
    LET next_filament_index == find_index(groups, slots, tc.next_filament)
    IN  IF next_filament_index = NotInAnyGroup
        THEN [ams |-> slots, raised |-> "ValueError: not in any group"]
        ELSE IF next_filament_index = None
        THEN IF Len(slots) = size
             THEN [ams |-> slots, raised |-> "ValueError: capacity"]
             ELSE [ams |-> Append(slots, tc.next_filament), raised |-> "none"]
        ELSE [ams |-> [slots EXCEPT ![next_filament_index + 1] = tc.next_filament],
              raised |-> "none"]

\* A whole pass of iter_manual_toolchanges from tool change i on (1-based),
\* consumed to its end: [manual, ams, raised, pos], pos the iterations it
\* completed.
RECURSIVE SimFrom(_, _, _, _, _, _)
SimFrom(tcs, i, slots, records, groups, size) ==
    IF i > Len(tcs)
    THEN [manual |-> records, ams |-> slots, raised |-> "none", pos |-> i - 1]
    ELSE LET t == Transition(slots, tcs[i], groups, size)
             recs == Yield(records, tcs[i], slots, groups)
         IN  IF t.raised # "none"
             THEN [manual |-> recs, ams |-> slots, raised |-> t.raised, pos |-> i - 1]
             ELSE SimFrom(tcs, i + 1, t.ams, recs, groups, size)

iter_manual_toolchanges(tcs, groups, size) == SimFrom(tcs, 1, <<>>, <<>>, groups, size)

\* ----------------------------------------------------- unique_k_partition

\* MergeFirst with the size test one too lenient: len(subset) > max_group_size
MergeFirstLoose(first, smaller, limit) ==
    LET keep == SelectSeq([n \in DOMAIN smaller |-> n],
                          LAMBDA n : ~(limit # None /\ Len(smaller[n]) > limit))
    IN  [j \in DOMAIN keep |-> [smaller EXCEPT ![keep[j]] = <<first>> \o smaller[keep[j]]]]

\* `yield smaller[:n] + [[first] + subset] + smaller[n + 1:]` for every subset
\* of `smaller` that the size limit allows, in the order of n
MergeFirst(first, smaller, limit) ==
    LET keep == SelectSeq([n \in DOMAIN smaller |-> n],
                          LAMBDA n : ~(limit # None /\ Len(smaller[n]) + 1 > limit))
    IN  [j \in DOMAIN keep |-> [smaller EXCEPT ![keep[j]] = <<first>> \o smaller[keep[j]]]]

\* the first loop of unique_k_partition over the partitions of collection[1:]
MergedInto(first, smallers, limit) ==
    Flatten([i \in DOMAIN smallers |-> MergeFirst(first, smallers[i], limit)])

\* the second loop: `yield [[first]] + smaller`
OwnGroup(first, smallers) ==
    [i \in DOMAIN smallers |-> <<(<<first>>)>> \o smallers[i]]

\* the two loops in the order the generator runs them
YieldOrder(merged, own) == merged \o own

\* unique_k_partition as the list of what it yields, in order.  The
\* collection is not empty (collection[0] raises IndexError on an empty one).
RECURSIVE unique_k_partition(_, _, _)
unique_k_partition(collection, k, limit) ==
    IF Len(collection) = 1 /\ k = 1 THEN <<(<<collection>>)>>
    ELSE IF Len(collection) = 1 THEN <<>>
    ELSE LET first == collection[1]
             rest == Tail(collection)
         IN  YieldOrder(MergedInto(first, unique_k_partition(rest, k, limit), limit),
                        OwnGroup(first, unique_k_partition(rest, k - 1, limit)))

\* ------------------------------------------------------ find_best_mapping

\* GCode.all_filaments: one Filament per metadata id, in metadata order
all_filaments(ids) == ids

\* sum([1 for _ in self.iter_manual_toolchanges(filament_grouping)]):
\* [count, raised]
CountManual(tcs, groups, size) ==
    LET sim == iter_manual_toolchanges(tcs, groups, size)
    IN  [count |-> Len(sim.manual), raised |-> sim.raised]

\* the comparison with < (the first of equal candidates is kept) and with >=
ReplacesStrict(number_of_manual_toolchanges, best) ==
    best = None \/ number_of_manual_toolchanges < best

ReplacesWorse(number_of_manual_toolchanges, best) ==
    best = None \/ number_of_manual_toolchanges >= best

\* best_manual_changes is None or (number_of_manual_toolchanges <= best_manual_changes)
Replaces(number_of_manual_toolchanges, best) ==
    best = None \/ number_of_manual_toolchanges <= best

\* the candidates with at most `size` groups
CandidatesUpTo(ids, size, limit) ==
    Flatten([j \in 1..size |-> unique_k_partition(all_filaments(ids), j, limit)])

\* the candidates find_best_mapping iterates over
Candidates(ids, size, limit) ==
    unique_k_partition(all_filaments(ids), size, limit)

\* find_best_mapping's return value: <<>> for None, else the triple
Returned(best, best_count, tcs) ==
    IF best = <<>> \/ best_count = None THEN <<>>
    ELSE Some([grouping |-> best[1], manual |-> best_count, total |-> Len(tcs)])

\* the whole of find_best_mapping, from candidate i on (1-based):
\* [result, raised]
RECURSIVE FindBestFrom(_, _, _, _, _, _)
FindBestFrom(cands, i, best, best_count, tcs, size) ==
    IF i > Len(cands)
    THEN [result |-> Returned(best, best_count, tcs), raised |-> "none"]
    ELSE LET groups == FilamentGrouping(cands[i])
             c == CountManual(tcs, groups, size)
         IN  IF c.raised # "none" THEN [result |-> <<>>, raised |-> c.raised]
             ELSE IF Replaces(c.count, best_count)
             THEN FindBestFrom(cands, i + 1, Some(groups), c.count, tcs, size)
             ELSE FindBestFrom(cands, i + 1, best, best_count, tcs, size)

find_best_mapping(ids, tcs, size, limit) ==
    FindBestFrom(Candidates(ids, size, limit), 1, <<>>, None, tcs, size)

\* ----------------------------------------------------- find_first_full_ams

\* the loop of find_first_full_ams over the records from k on (1-based):
\* [result_ams, returned, at], returned when the loop ended by its return, at
\* the record at (the pass is then left suspended at that record's yield)
RECURSIVE FirstFullFrom(_, _, _, _, _)
FirstFullFrom(records, k, result_ams, i, size) ==
    IF k > Len(records) THEN [result_ams |-> result_ams, returned |-> FALSE, at |-> 0]
    ELSE LET last_ams == records[k].ams
             grown == Len(last_ams) > i
             extended == IF grown
                         THEN result_ams \o SubSeq(last_ams, Len(result_ams) + 1, Len(last_ams))
                         ELSE result_ams
         IN  IF Len(extended) = size
             THEN [result_ams |-> extended, returned |-> TRUE, at |-> k]
             ELSE FirstFullFrom(records, k + 1, extended,
                                IF grown THEN Len(last_ams) ELSE i, size)

\* find_first_full_ams: [result, raised]; the pass it iterates is a generator,
\* so its exception is met only when the loop has not returned before
find_first_full_ams(tcs, groups, size) ==
    LET sim == iter_manual_toolchanges(tcs, groups, size)
        loop == FirstFullFrom(sim.manual, 1, <<>>, 0, size)
    IN  IF loop.returned \/ sim.raised = "none"
        THEN [result |-> loop.result_ams, raised |-> "none"]
        ELSE [result |-> <<>>, raised |-> sim.raised]

\* the pass find_first_full_ams iterated, as the function leaves it:
\* [manual, ams, pos].  A return from inside the loop leaves the generator
\* suspended at the yield of the record it stopped at, before that
\* iteration's slot update; otherwise the pass ran to its end or to its
\* exception.
first_full_pass(tcs, groups, size) ==
    LET sim == iter_manual_toolchanges(tcs, groups, size)
        loop == FirstFullFrom(sim.manual, 1, <<>>, 0, size)
    IN  IF loop.returned
        THEN [manual |-> SubSeq(sim.manual, 1, loop.at),
              ams |-> sim.manual[loop.at].ams,
              pos |-> (CHOOSE j \in DOMAIN tcs : tcs[j] = sim.manual[loop.at].toolchange) - 1]
        ELSE [manual |-> sim.manual,
              ams |-> sim.ams,
              pos |-> sim.pos]

\* ------------------------------------------------ paused_filament_change

\* the replacement with the arm command left at the unload sentinel
PausedToolChangeUnloadArm(line, next_extruder) ==
    << Line("T", 255), Line("M621S255", 0), pause_gcode,
       Line("G1", 1), Line("G1", 2), Line("G1", 3), Line("M400", 0),
       Line("M620A", 255), WRAP, line, WRAP >>

\* the lines that replace the T line of a block: T255, M621 S255, M400 U1,
\* G1 X100 F5000 (G1 1), G1 X165 F15000 (G1 2), G1 Y256 (G1 3), M400,
\* M620 S<next_extruder>A, M620.1 E F523 T240, the T line, M620.1 E F523 T240
PausedToolChange(line, next_extruder) ==
    << Line("T", 255), Line("M621S255", 0), pause_gcode,
       Line("G1", 1), Line("G1", 2), Line("G1", 3), Line("M400", 0),
       Line("M620A", next_extruder), WRAP, line, WRAP >>

\* the loop with the wrapper lines left where they are
RECURSIVE PausedFromKeepsWrap(_, _, _, _)
PausedFromKeepsWrap(block, i, next_extruder, out) ==
    IF i > Len(block) THEN [result |-> out, error |-> "none"]
    ELSE LET line == block[i]
         IN  IF line.op = "M620A"
             THEN PausedFromKeepsWrap(block, i + 1, line.arg,
                                      Append(out, Line("M620S255", 0)))
             ELSE IF line.op = "T"
             THEN IF next_extruder = None
                  THEN [result |-> <<>>, error |-> "ValueError: next extruder"]
                  ELSE PausedFromKeepsWrap(block, i + 1, next_extruder,
                                           out \o PausedToolChange(line, next_extruder))
             ELSE PausedFromKeepsWrap(block, i + 1, next_extruder, Append(out, line))

\* the loop of paused_filament_change from line i on (1-based): [result, error]
RECURSIVE PausedFrom(_, _, _, _)
PausedFrom(block, i, next_extruder, out) ==
    IF i > Len(block) THEN [result |-> out, error |-> "none"]
    ELSE LET line == block[i]
         IN  IF line.op = "M620A"
             THEN PausedFrom(block, i + 1, line.arg, Append(out, Line("M620S255", 0)))
             ELSE IF line.op = "M620.1"
             THEN PausedFrom(block, i + 1, next_extruder, out)
             ELSE IF line.op = "T"
             THEN IF next_extruder = None
                  THEN [result |-> <<>>, error |-> "ValueError: next extruder"]
                  ELSE PausedFrom(block, i + 1, next_extruder,
                                  out \o PausedToolChange(line, next_extruder))
             ELSE PausedFrom(block, i + 1, next_extruder, Append(out, line))

paused_filament_change(block) ==
    IF block = <<>> THEN [result |-> <<>>, error |-> "IndexError"]
    ELSE IF block[1].op # "START"
    THEN [result |-> <<>>, error |-> "ValueError: start"]
    ELSE IF block[Len(block)].op # "END"
    THEN [result |-> <<>>, error |-> "ValueError: end"]
    ELSE PausedFrom(block, 1, None, <<>>)

\* ------------------------------------------------------------ GCode.write

starts_at(m, idx) == m.toolchange.start_index = idx

IndexOf(m) == m.toolchange.index

\* inform_user: the message appended to output, <<>> when it raises
inform_user(m, groups) ==
    LET colorswap_index == find_index(groups, m.ams, m.toolchange.next_filament)
    IN  IF colorswap_index = None \/ colorswap_index = NotInAnyGroup THEN <<>>
        ELSE Some([layer |-> m.toolchange.layer,
                   swap |-> m.ams[colorswap_index + 1],
                   with |-> m.toolchange.next_filament,
                   ams |-> m.ams])

\* the loop of write over the lines from idx on (0-based); mi is the position
\* (1-based) of manual_toolchange in manual_toolchanges, past its end for None:
\* [data, output, error]
RECURSIVE WriteFrom(_, _, _, _, _, _, _, _)
WriteFrom(g, mts, groups, idx, mi, skip_until, out, output) ==
    IF idx >= Len(g) THEN [data |-> out, output |-> output, error |-> "none"]
    ELSE
    LET line == g[idx + 1]
        have == mi <= Len(mts)
    IN  IF skip_until # None
        THEN WriteFrom(g, mts, groups, idx + 1, mi,
                       IF idx = skip_until THEN None ELSE skip_until, out, output)
        ELSE IF have /\ is_conflict(mts[mi].toolchange, groups) /\ starts_at(mts[mi], idx)
        THEN LET block == paused_filament_change(
                              Slice(g, idx, mts[mi].toolchange.end_index + 1))
                 msg == inform_user(mts[mi], groups)
             IN  IF block.error # "none"
                 THEN [data |-> out, output |-> output, error |-> block.error]
                 ELSE IF msg = <<>>
                 THEN [data |-> out \o block.result, output |-> output,
                       error |-> "ValueError: inform_user"]
                 ELSE WriteFrom(g, mts, groups, idx + 1, mi + 1,
                                mts[mi].toolchange.end_index,
                                out \o block.result, output \o msg)
        ELSE IF ~have \/ idx # IndexOf(mts[mi])
        THEN WriteFrom(g, mts, groups, idx + 1, mi, None, Append(out, line), output)
        ELSE LET msg == inform_user(mts[mi], groups)
             IN  IF msg = <<>>
                 THEN [data |-> out \o <<pause_gcode, line>>, output |-> output,
                       error |-> "ValueError: inform_user"]
                 ELSE WriteFrom(g, mts, groups, idx + 1, mi + 1, None,
                                out \o <<pause_gcode, line>>, output \o msg)

\* GCode.write up to the archive it writes: [data, output, changes, manual,
\* error]; the archive is written only when error is "none".
write(g, tcs, groups, size) ==
    LET sim == iter_manual_toolchanges(tcs, groups, size)
        manual_toolchanges == SortedBy(sim.manual, [i \in DOMAIN sim.manual |-> IndexOf(sim.manual[i])])
    IN  IF sim.raised # "none"
        THEN [data |-> <<>>, output |-> <<>>, changes |-> 0, manual |-> 0,
              error |-> sim.raised]
        ELSE LET w == WriteFrom(g, manual_toolchanges, groups, 0, 1, None, <<>>, <<>>)
             IN  [data |-> w.data, output |-> w.output,
                  changes |-> Len(tcs) - 1, manual |-> Len(manual_toolchanges),
                  error |-> w.error]

\* ------------------------------------------------------- conflict report

\* GCode.list_conflicts: the dict layer -> tool changes as its items
\* [layer, tcs] in the order the keys were inserted, from record i on
RECURSIVE ListConflictsFrom(_, _, _, _)
ListConflictsFrom(records, i, groups, result_dict) ==
    IF i > Len(records) THEN result_dict
    ELSE LET toolchange == records[i].toolchange
         IN  IF ~is_conflict(toolchange, groups)
             THEN ListConflictsFrom(records, i + 1, groups, result_dict)
             ELSE IF \E k \in DOMAIN result_dict : result_dict[k].layer = toolchange.layer
             THEN LET k == CHOOSE n \in DOMAIN result_dict :
                               result_dict[n].layer = toolchange.layer
                  IN  ListConflictsFrom(records, i + 1, groups,
                          [result_dict EXCEPT ![k].tcs = Append(@, toolchange)])
             ELSE ListConflictsFrom(records, i + 1, groups,
                      Append(result_dict, [layer |-> toolchange.layer,
                                           tcs |-> <<toolchange>>]))

list_conflicts(groups, iter_manual_changes) ==
    ListConflictsFrom(iter_manual_changes, 1, groups, <<>>)

\* v = [(tc.current_filament, tc.next_filament) for tc in tcs]
conflict_pairs(tcs) ==
    [i \in DOMAIN tcs |-> <<tcs[i].current_filament, tcs[i].next_filament>>]

\* log(f"Layer {first_layer} to {last_layer}: {... set(conflicts)}")
RangeLine(first, last, pairs) ==
    [first_layer |-> first, last_layer |-> last, pairs |-> Range(pairs)]

\* one iteration of the report loop with the new range ending at its own layer
CoalesceItemSameLayer(state, item) ==
    LET layer == item.layer
        v == conflict_pairs(item.tcs)
    IN  IF state.first_layer = None \/ state.last_layer = None
        THEN [first_layer |-> layer, last_layer |-> layer,
              conflicts |-> state.conflicts \o v, logged |-> state.logged]
        ELSE IF (\A i \in DOMAIN v : In(v[i], state.conflicts))
                /\ layer <= state.last_layer + 1
        THEN [first_layer |-> state.first_layer, last_layer |-> layer,
              conflicts |-> state.conflicts \o v, logged |-> state.logged]
        ELSE [first_layer |-> layer, last_layer |-> layer, conflicts |-> v,
              logged |-> Append(state.logged,
                                RangeLine(state.first_layer, state.last_layer,
                                          state.conflicts))]

\* one iteration of `for (layer, tcs) in toolchange_conflicts.items()`:
\* state is [first_layer, last_layer, conflicts, logged]
CoalesceItem(state, item) ==
    LET layer == item.layer
        v == conflict_pairs(item.tcs)
    IN  IF state.first_layer = None \/ state.last_layer = None
        THEN [first_layer |-> layer, last_layer |-> layer,
              conflicts |-> state.conflicts \o v, logged |-> state.logged]
        ELSE IF (\A i \in DOMAIN v : In(v[i], state.conflicts))
                /\ layer <= state.last_layer + 1
        THEN [first_layer |-> state.first_layer, last_layer |-> layer,
              conflicts |-> state.conflicts \o v, logged |-> state.logged]
        ELSE [first_layer |-> layer, last_layer |-> layer + 1, conflicts |-> v,
              logged |-> Append(state.logged,
                                RangeLine(state.first_layer, state.last_layer,
                                          state.conflicts))]

\* `if len(conflicts) > 0: log(...)` after the loop: the lines logged
CoalesceLast(state) ==
    IF Len(state.conflicts) > 0
    THEN Append(state.logged,
                RangeLine(state.first_layer, state.last_layer, state.conflicts))
    ELSE state.logged

\* the archive after write: written only when the loop has raised nothing
ArchiveAlways(w, old) ==
    w.data

Archive(w, old) ==
    IF w.error = "none" THEN w.data ELSE old

\* ------------------------------------------------------------------ inputs

\* the sequences over S of length at most n
SeqsUpTo(S, n) == UNION {[1..m -> S] : m \in 0..n}

\* the sequences over S without repetition, of length 1..n
DistinctSeqs(S, n) ==
    {q \in SeqsUpTo(S, n) : q # <<>> /\ \A i, j \in DOMAIN q : i # j => q[i] # q[j]}

Ids(n) == [i \in 1..n |-> i - 1]

\* one tool change of filament f as the slicer writes it
FullBlock(f) == <<START, Line("M620A", f), WRAP, Line("T", f), WRAP, END>>
\* the same without its start marker
OpenBlock(f) == <<Line("M620A", f), Line("T", f), END>>
\* a block that never arms the tool changer
ShortBlock(f) == <<START, Line("T", f), END>>

\* the command stream of the tool changes ids, one block each
StreamOf(ids) == Flatten([i \in DOMAIN ids |-> ShortBlock(ids[i])])

\* every partition of the filaments, as a FilamentGrouping
Groupings(ids) ==
    UNION {{FilamentGrouping(c) : c \in Range(unique_k_partition(ids, k, None))}
           : k \in 1..Len(ids)}

Limits(n) == {None} \cup 1..n

\* the filaments of the rewritten streams: a manual change that is no conflict
\* takes three
WriteFilaments == <<0, 1, 2>>

Items ==
    UNION {{FullBlock(f), OpenBlock(f), ShortBlock(f)} : f \in Range(WriteFilaments)}
    \cup {<<Line("M73", 1)>>, <<Line("T", 255)>>}

\* nothing has run yet
IdleState ==
    /\ ams = <<>> /\ pos = 0 /\ manual = <<>> /\ raised = "none"
    /\ yielded = 0 /\ best_combination = <<>> /\ best_manual_changes = None
    /\ result = <<>> /\ data = <<>>
    /\ toolchange_conflicts = <<>> /\ first_layer = None /\ last_layer = None
    /\ conflicts = <<>> /\ consumed = 0 /\ logged = <<>>

\* the same, with no groups on the command line and no block to transform
Idle == IdleState /\ grouped_filaments = <<>> /\ filament_change_gcode = <<>>

\* --------------------------------------------------------------- simulator

\* One pass of iter_manual_toolchanges over a scanned stream.  The pass is a
\* generator: an iteration for a manual change suspends at its yield (line
\* 471), phase "yielded", with the record handed to the consumer and the slot
\* array not yet updated; the rest of the iteration runs when the consumer
\* resumes the generator.  An iteration that yields nothing is one step.
Init ==
    /\ phase = "simulate"
    /\ filament_ids = Ids(NumFilaments)
    /\ \E ids \in SeqsUpTo(Range(filament_ids), MaxChanges) : gcode = StreamOf(ids)
    /\ toolchanges = iter_from_gcode(gcode, Range(filament_ids)).toolchanges
    /\ ams_size \in 1..MaxAms
    /\ filament_grouping \in Groupings(filament_ids)
    /\ max_group_size = None
    /\ Idle

\* lines 464-471: the iteration of a manual change, up to its yield
SimYield ==
    /\ phase = "simulate" /\ raised = "none" /\ pos < Len(toolchanges)
    /\ is_manual(toolchanges[pos + 1], ams, filament_grouping)
    /\ manual' = Yield(manual, toolchanges[pos + 1], ams, filament_grouping)
    /\ phase' = "yielded"
    /\ UNCHANGED <<main_vars, gcode, filament_ids, toolchanges, ams_size,
                   filament_grouping, ams, pos, raised, max_group_size, yielded,
                   best_combination, best_manual_changes, result, data>>

\* lines 475-485: the slot update, of an iteration that yielded nothing or of
\* the generator resumed after its yield
SimStep ==
    /\ raised = "none" /\ pos < Len(toolchanges)
    /\ \/ phase = "yielded"
       \/ /\ phase = "simulate"
          /\ ~is_manual(toolchanges[pos + 1], ams, filament_grouping)
    /\ LET tc == toolchanges[pos + 1]
           t == Transition(ams, tc, filament_grouping, ams_size)
       IN  /\ ams' = t.ams
           /\ raised' = t.raised
           /\ pos' = IF t.raised = "none" THEN pos + 1 ELSE pos
    /\ phase' = "simulate"
    /\ UNCHANGED <<main_vars, gcode, filament_ids, toolchanges, ams_size,
                   filament_grouping, manual, max_group_size, yielded,
                   best_combination, best_manual_changes, result, data>>

Next == SimYield \/ SimStep

Spec == Init /\ [][Next]_vars

\* --------------------------------------------------------------- optimizer

\* find_best_mapping, one candidate per step, then its return.
OptInit ==
    /\ phase = "optimize"
    /\ \E n \in 1..NumFilaments : filament_ids = Ids(n)
    /\ \E ids \in SeqsUpTo(Range(filament_ids), MaxChanges) : gcode = StreamOf(ids)
    /\ toolchanges = iter_from_gcode(gcode, Range(filament_ids)).toolchanges
    /\ ams_size \in 1..MaxAms
    /\ max_group_size \in Limits(NumFilaments)
    /\ filament_grouping = <<>>
    /\ Idle

FindBestStep ==
    /\ phase = "optimize"
    /\ yielded < Len(Candidates(filament_ids, ams_size, max_group_size))
    /\ LET combination == Candidates(filament_ids, ams_size, max_group_size)[yielded + 1]
           groups == FilamentGrouping(combination)
           c == CountManual(toolchanges, groups, ams_size)
       IN  /\ yielded' = yielded + 1
           /\ filament_grouping' = groups
           /\ raised' = c.raised
           /\ phase' = IF c.raised = "none" THEN phase ELSE "failed"
           /\ IF c.raised = "none" /\ Replaces(c.count, best_manual_changes)
              THEN best_combination' = Some(groups) /\ best_manual_changes' = c.count
              ELSE UNCHANGED <<best_combination, best_manual_changes>>
    /\ UNCHANGED <<main_vars, gcode, filament_ids, toolchanges, ams_size, ams, pos, manual,
                   max_group_size, result, data>>

FindBestReturn ==
    /\ phase = "optimize"
    /\ yielded = Len(Candidates(filament_ids, ams_size, max_group_size))
    /\ result' = Returned(best_combination, best_manual_changes, toolchanges)
    /\ phase' = "returned"
    /\ UNCHANGED <<main_vars, gcode, filament_ids, toolchanges, ams_size, filament_grouping,
                   ams, pos, manual, raised, max_group_size, yielded,
                   best_combination, best_manual_changes, data>>

OptNext == FindBestStep \/ FindBestReturn

SpecOpt == OptInit /\ [][OptNext]_vars

\* The optimizer scenario: five filaments printed in the cycle 0,1,2,3,4 twice,
\* for every AMS size and group size limit up to five.
ScenarioFilaments == <<0, 1, 2, 3, 4>>
ScenarioChanges == <<0, 1, 2, 3, 4, 0, 1, 2, 3, 4>>

ScenarioInit ==
    /\ phase = "optimize"
    /\ filament_ids = ScenarioFilaments
    /\ gcode = StreamOf(ScenarioChanges)
    /\ toolchanges = iter_from_gcode(gcode, Range(filament_ids)).toolchanges
    /\ ams_size \in 1..Len(ScenarioFilaments)
    /\ max_group_size \in Limits(Len(ScenarioFilaments))
    /\ filament_grouping = <<>>
    /\ Idle

SpecScenario == ScenarioInit /\ [][OptNext]_vars

\* ------------------------------------------------------ partition generator

\* unique_k_partition(filament_ids, ams_size, max_group_size) consumed one
\* partition per step; result collects what it yielded.
PartInit ==
    /\ phase = "partition"
    /\ filament_ids \in DistinctSeqs(0..(MaxCollection - 1), MaxCollection)
    /\ ams_size \in 1..MaxAms
    /\ max_group_size \in Limits(MaxCollection)
    /\ gcode = <<>> /\ toolchanges = <<>> /\ filament_grouping = <<>>
    /\ Idle

PartYield ==
    /\ phase = "partition"
    /\ yielded < Len(unique_k_partition(filament_ids, ams_size, max_group_size))
    /\ yielded' = yielded + 1
    /\ result' = Append(result,
                        unique_k_partition(filament_ids, ams_size, max_group_size)[yielded + 1])
    /\ UNCHANGED <<main_vars, phase, gcode, filament_ids, toolchanges, ams_size,
                   filament_grouping, ams, pos, manual, raised, max_group_size,
                   best_combination, best_manual_changes, data>>

PartNext == PartYield

SpecPart == PartInit /\ [][PartNext]_vars

\* ------------------------------------------------------------------ rewrite

\* GCode.__init__ (the scan) and GCode.write on a stream of blocks and lines,
\* with the AMS size the program constructs GCode with.
WriteInit ==
    /\ phase = "construct"
    /\ filament_ids = WriteFilaments
    /\ \E items \in SeqsUpTo(Items, MaxItems) : gcode = Flatten(items)
    /\ toolchanges = <<>>
    /\ ams_size = DefaultAmsSize
    /\ filament_grouping \in Groupings(filament_ids)
    /\ max_group_size = None
    /\ Idle

Construct ==
    /\ phase = "construct"
    /\ LET scan == iter_from_gcode(gcode, Range(filament_ids))
       IN  /\ toolchanges' = IF scan.error = "none" THEN scan.toolchanges
                              ELSE toolchanges
           /\ raised' = scan.error
           /\ phase' = IF scan.error = "none" THEN "constructed" ELSE "failed"
    /\ UNCHANGED <<main_vars, gcode, filament_ids, ams_size, filament_grouping, ams, pos,
                   manual, max_group_size, yielded, best_combination,
                   best_manual_changes, result, data>>

Write ==
    /\ phase = "constructed"
    /\ LET w == write(gcode, toolchanges, filament_grouping, ams_size)
           sim == iter_manual_toolchanges(toolchanges, filament_grouping, ams_size)
       IN  /\ raised' = w.error
           /\ phase' = IF w.error = "none" THEN "written" ELSE "failed"
           /\ data' = Archive(w, data)
           /\ result' = IF w.error = "none" THEN w.output ELSE result
           /\ manual' = sim.manual
           /\ ams' = sim.ams
           /\ pos' = sim.pos
    /\ UNCHANGED <<main_vars, gcode, filament_ids, toolchanges, ams_size, filament_grouping,
                   max_group_size, yielded, best_combination,
                   best_manual_changes>>

WriteNext == Construct \/ Write

SpecWrite == WriteInit /\ [][WriteNext]_vars

\* ------------------------------------------------------- initial load-out

\* find_first_full_ams on a scanned stream, for every grouping and AMS size.
FirstInit ==
    /\ phase = "first full"
    /\ filament_ids = Ids(NumFilaments)
    /\ \E ids \in SeqsUpTo(Range(filament_ids), MaxChanges) : gcode = StreamOf(ids)
    /\ toolchanges = iter_from_gcode(gcode, Range(filament_ids)).toolchanges
    /\ ams_size \in 1..MaxAms
    /\ filament_grouping \in Groupings(filament_ids)
    /\ max_group_size = None
    /\ Idle

FindFirstFullAms ==
    /\ phase = "first full"
    /\ LET first == find_first_full_ams(toolchanges, filament_grouping, ams_size)
           pass == first_full_pass(toolchanges, filament_grouping, ams_size)
       IN  /\ result' = first.result
           /\ raised' = first.raised
           /\ manual' = pass.manual
           /\ ams' = pass.ams
           /\ pos' = pass.pos
           /\ phase' = IF first.raised = "none" THEN "returned" ELSE "failed"
    /\ UNCHANGED <<main_vars, gcode, filament_ids, toolchanges, ams_size,
                   filament_grouping, max_group_size, yielded,
                   best_combination, best_manual_changes, data>>

FirstNext == FindFirstFullAms

SpecFirst == FirstInit /\ [][FirstNext]_vars

\* --------------------------------------------------------------- grouping

\* the list q cut into consecutive groups after the positions in cuts
SplitAt(q, cuts) ==
    LET ends == cuts \cup {Len(q)}
        EndOf(k) == CHOOSE e \in ends : Cardinality({c \in ends : c < e}) = k - 1
    IN  [k \in 1..Cardinality(ends) |->
            SubSeq(q, IF k = 1 THEN 1 ELSE EndOf(k - 1) + 1, EndOf(k))]

\* the groups a command line can give: `a:b c:d ...` with at most n ids
UserGroups(ids, n) ==
    {SplitAt(q, cuts) : <<q, cuts>> \in
        UNION {{<<q, cuts>> : cuts \in SUBSET (1..(Len(q) - 1))}
               : q \in SeqsUpTo(ids, n) \ {<<>>}}}

\* FilamentGrouping.from_list on the groups of the command line; the ids of
\* the command line are the metadata's and one that it does not list.
GroupInit ==
    /\ phase = "group"
    /\ filament_ids = Ids(NumFilaments)
    /\ grouped_filaments \in UserGroups(0..NumFilaments, MaxMembers)
    /\ gcode = <<>> /\ toolchanges = <<>> /\ filament_grouping = <<>>
    /\ ams_size = DefaultAmsSize /\ max_group_size = None
    /\ filament_change_gcode = <<>>
    /\ IdleState

FromList ==
    /\ phase = "group"
    /\ LET error == from_list_error(grouped_filaments, all_filaments(filament_ids))
       IN  /\ raised' = error
           /\ phase' = IF error = "none" THEN "grouped" ELSE "failed"
           /\ filament_grouping' =
                  IF error = "none"
                  THEN from_list(grouped_filaments, all_filaments(filament_ids))
                  ELSE filament_grouping
    /\ UNCHANGED <<gcode, filament_ids, toolchanges, ams_size, ams, pos, manual,
                   max_group_size, yielded, best_combination,
                   best_manual_changes, result, data, main_vars>>

GroupNext == FromList

SpecGroup == GroupInit /\ [][GroupNext]_vars

\* ---------------------------------------------------- block transformer

\* the lines a block holds between its first and its last line
BlockLines ==
    {Line("M620A", 1), Line("M620A", 3), WRAP, Line("T", 3), Line("T", 255),
     Line("G1", 9), Line("M400", 0)}

\* the first and the last line of a block: the markers, the markers with text
\* after them, and a block that lacks one of them
BlockFrames ==
    {<<START, END>>, <<Line("START", 1), Line("END", 1)>>,
     <<Line("G1", 9), END>>, <<START, Line("G1", 9)>>}

\* start, arm(next=3), wrapper, tool-change(T3), wrapper, end
MinimalBlock == <<START, Line("M620A", 3), WRAP, Line("T", 3), WRAP, END>>

\* paused_filament_change applied to a block.
BlockInit ==
    /\ phase = "block"
    /\ \E frame \in BlockFrames, lines \in SeqsUpTo(BlockLines, MaxBlockLines) :
           filament_change_gcode = <<frame[1]>> \o lines \o <<frame[2]>>
    /\ filament_ids = <<>> /\ gcode = <<>> /\ toolchanges = <<>>
    /\ filament_grouping = <<>> /\ grouped_filaments = <<>>
    /\ ams_size = DefaultAmsSize /\ max_group_size = None
    /\ IdleState

Transform ==
    /\ phase = "block"
    /\ LET r == paused_filament_change(filament_change_gcode)
       IN  /\ result' = r.result
           /\ raised' = r.error
           /\ phase' = IF r.error = "none" THEN "transformed" ELSE "failed"
    /\ UNCHANGED <<gcode, filament_ids, toolchanges, ams_size, filament_grouping,
                   ams, pos, manual, max_group_size, yielded, best_combination,
                   best_manual_changes, data, main_vars>>

BlockNext == Transform

SpecBlock == BlockInit /\ [][BlockNext]_vars

\* ---------------------------------------------------------------- the run

\* the layers a tool change can lie above the one before it
LayerGaps == {0, 1, 2}

\* the command stream of the tool changes <<gap, filament>>, each in a block
\* of its own, with an M73 line wherever the layer changes
RECURSIVE LayeredFrom(_, _, _)
LayeredFrom(changes, i, layer) ==
    IF i > Len(changes) THEN <<>>
    ELSE LET gap == changes[i][1]
             marker == IF gap > 0 THEN <<Line("M73", layer + gap)>> ELSE <<>>
         IN  marker \o FullBlock(changes[i][2])
                    \o LayeredFrom(changes, i + 1, layer + gap)

LayeredStream(changes) == LayeredFrom(changes, 1, 0)

Input(ids, stream, groups) ==
    [filament_ids |-> ids, gcode |-> stream, grouped_filaments |-> groups]

\* runs over layers, the first tool change in layer 0: three filaments, two
\* of them or all three in one group
LayeredInputs ==
    {Input(WriteFilaments, LayeredStream(changes), groups) :
        changes \in {c \in SeqsUpTo(LayerGaps \X Range(WriteFilaments), MaxLayered) :
                        c # <<>> => c[1][1] = 0},
        groups \in {<< <<0, 1>> >>, << <<0, 1, 2>> >>}}

\* the run of the coalescing example: filaments 1 and 5 in one group, 2 and 6
\* in another, with conflicts 1 -> 5 in layers 5 and 6 and 2 -> 6 in layer 10
ExampleFilaments == <<1, 2, 3, 5, 6>>
ExampleGroups == << <<1, 5>>, <<2, 6>> >>
ExampleStream ==
    FullBlock(1) \o <<Line("M73", 5)>> \o FullBlock(5) \o FullBlock(3) \o FullBlock(1)
        \o <<Line("M73", 6)>> \o FullBlock(5)
        \o <<Line("M73", 10)>> \o FullBlock(2) \o FullBlock(6)

\* blocks and lines of a stream that may be malformed: a block of a filament
\* the metadata does not list, a tool change without markers, a start marker
\* with text after it, a block that never arms the tool changer
MainItems ==
    {FullBlock(0), FullBlock(1), ShortBlock(1), FullBlock(Len(WriteFilaments)),
     <<Line("T", 0)>>, <<Line("START", 1), Line("M620A", 0), Line("T", 0), END>>,
     OpenBlock(1)}

\* command lines: none, a group, a filament in two groups, an id twice in one
\* group, an id the metadata does not list
MainGroups ==
    {<<>>, << <<0, 1>> >>, << <<0, 1>>, <<1, 2>> >>, << <<0, 0>> >>,
     << <<0, Len(WriteFilaments)>> >>}

MalformedInputs ==
    {Input(WriteFilaments, Flatten(items), groups) :
        items \in SeqsUpTo(MainItems, MaxItems), groups \in MainGroups}

\* one filament more than the AMS has slots, printed one after the other
CapacityFilaments == Ids(DefaultAmsSize + 1)

CapacityInputs ==
    {Input(CapacityFilaments,
           Flatten([i \in DOMAIN CapacityFilaments |-> FullBlock(CapacityFilaments[i])]),
           groups) :
        groups \in {<<>>, << <<0>> >>, << <<0, 1>> >>, << <<3, 4>> >>, << <<0, 4>> >>}}

MainInputs ==
    LayeredInputs \cup MalformedInputs \cup CapacityInputs
        \cup {Input(ExampleFilaments, ExampleStream, ExampleGroups)}

\* The program from GCode(...) to gcode.write(...), one statement per step.
MainInit ==
    /\ phase = "construct"
    /\ \E in \in MainInputs :
           /\ filament_ids = in.filament_ids
           /\ gcode = in.gcode
           /\ grouped_filaments = in.grouped_filaments
    /\ toolchanges = <<>> /\ filament_grouping = <<>>
    /\ ams_size = DefaultAmsSize /\ max_group_size = MainMaxGroupSize
    /\ filament_change_gcode = <<>>
    /\ IdleState

\* lines 601-616: the grouping, computed or taken from the command line
MainGroup ==
    /\ phase = "constructed"
    /\ IF Len(grouped_filaments) = 0
       THEN LET mapping == find_best_mapping(filament_ids, toolchanges, ams_size,
                                             max_group_size)
            IN  /\ raised' = mapping.raised
                /\ phase' = IF mapping.raised # "none" THEN "failed"
                            ELSE IF mapping.result = <<>> THEN "exit 1"
                            ELSE "grouped"
                /\ filament_grouping' =
                       IF mapping.raised = "none" /\ mapping.result # <<>>
                       THEN mapping.result[1].grouping ELSE filament_grouping
       ELSE LET error == from_list_error(grouped_filaments, all_filaments(filament_ids))
            IN  /\ raised' = error
                /\ phase' = IF error = "none" THEN "grouped" ELSE "failed"
                /\ filament_grouping' =
                       IF error = "none"
                       THEN from_list(grouped_filaments, all_filaments(filament_ids))
                       ELSE filament_grouping
    /\ UNCHANGED <<gcode, filament_ids, toolchanges, ams_size, ams, pos, manual,
                   max_group_size, yielded, best_combination,
                   best_manual_changes, result, data, main_vars>>

\* lines 618-621: states = list(gcode.iter_manual_toolchanges(grouped_filaments))
Simulate ==
    /\ phase = "grouped"
    /\ LET sim == iter_manual_toolchanges(toolchanges, filament_grouping, ams_size)
       IN  /\ raised' = sim.raised
           /\ manual' = sim.manual
           /\ ams' = sim.ams
           /\ pos' = sim.pos
           /\ phase' = IF sim.raised # "none" THEN "failed"
                       ELSE IF Len(sim.manual) = 0 THEN "exit 0"
                       ELSE "simulated"
    /\ UNCHANGED <<gcode, filament_ids, toolchanges, ams_size, filament_grouping,
                   max_group_size, yielded, best_combination,
                   best_manual_changes, result, data, main_vars>>

\* line 626
ListConflicts ==
    /\ phase = "simulated"
    /\ toolchange_conflicts' = list_conflicts(filament_grouping, manual)
    /\ phase' = "coalescing"
    /\ UNCHANGED <<gcode, filament_ids, toolchanges, ams_size, filament_grouping,
                   ams, pos, manual, raised, max_group_size, yielded,
                   best_combination, best_manual_changes, result, data,
                   grouped_filaments, filament_change_gcode, first_layer,
                   last_layer, conflicts, consumed, logged>>

\* lines 637-653: one iteration of the loop over toolchange_conflicts.items()
CoalesceStep ==
    /\ phase = "coalescing"
    /\ consumed < Len(toolchange_conflicts)
    /\ LET state == CoalesceItem([first_layer |-> first_layer,
                                  last_layer |-> last_layer,
                                  conflicts |-> conflicts, logged |-> logged],
                                 toolchange_conflicts[consumed + 1])
       IN  /\ first_layer' = state.first_layer
           /\ last_layer' = state.last_layer
           /\ conflicts' = state.conflicts
           /\ logged' = state.logged
    /\ consumed' = consumed + 1
    /\ UNCHANGED <<phase, gcode, filament_ids, toolchanges, ams_size,
                   filament_grouping, ams, pos, manual, raised, max_group_size,
                   yielded, best_combination, best_manual_changes, result, data,
                   grouped_filaments, filament_change_gcode, toolchange_conflicts>>

\* lines 655-656: the open range is logged
CoalesceEnd ==
    /\ phase = "coalescing"
    /\ consumed = Len(toolchange_conflicts)
    /\ logged' = CoalesceLast([first_layer |-> first_layer, last_layer |-> last_layer,
                               conflicts |-> conflicts, logged |-> logged])
    /\ phase' = "reported"
    /\ UNCHANGED <<gcode, filament_ids, toolchanges, ams_size, filament_grouping,
                   ams, pos, manual, raised, max_group_size, yielded,
                   best_combination, best_manual_changes, result, data,
                   grouped_filaments, filament_change_gcode, toolchange_conflicts,
                   first_layer, last_layer, conflicts, consumed>>

\* lines 670-674: gcode.write(...)
MainWrite ==
    /\ phase = "reported"
    /\ LET w == write(gcode, toolchanges, filament_grouping, ams_size)
           sim == iter_manual_toolchanges(toolchanges, filament_grouping, ams_size)
       IN  /\ raised' = w.error
           /\ phase' = IF w.error = "none" THEN "written" ELSE "failed"
           /\ data' = Archive(w, data)
           /\ result' = IF w.error = "none" THEN w.output ELSE result
           /\ manual' = sim.manual
           /\ ams' = sim.ams
           /\ pos' = sim.pos
    /\ UNCHANGED <<gcode, filament_ids, toolchanges, ams_size, filament_grouping,
                   max_group_size, yielded, best_combination,
                   best_manual_changes, main_vars>>

MainNext ==
    \/ Construct \/ MainGroup \/ Simulate \/ ListConflicts
    \/ CoalesceStep \/ CoalesceEnd \/ MainWrite

SpecMain == MainInit /\ [][MainNext]_vars

\* =============================================================== properties

\* two filaments are in one group of the grouping in use
SameGroup(a, b) ==
    \E g \in DOMAIN filament_grouping :
        a \in Range(filament_grouping[g]) /\ b \in Range(filament_grouping[g])

\* the slots holding a filament of f's group
MateSlots(f) == {i \in DOMAIN ams : SameGroup(ams[i], f)}

\* the filament the simulator's next transition loads
Upcoming == toolchanges[pos + 1].next_filament

\* the filaments the command stream names
Used == {toolchanges[i].next_filament : i \in DOMAIN toolchanges}

\* C2: a simulator transition yields a ManualToolChange if and only if the next
\* filament is in no slot and some slot holds a filament of its group; the
\* record holds the tool change and the slot array as it was before the
\* transition, and the records yielded earlier stay as they were.  A
\* transition begins in phase "simulate"; it yields, with the slot array
\* untouched, before it updates the array.
C2_ManualIffAbsentWithMate ==
    [][ /\ Len(manual') \in {Len(manual), Len(manual) + 1}
        /\ phase = "simulate" =>
               ((Len(manual') = Len(manual) + 1)
                  <=> ((\A i \in DOMAIN ams : ams[i] # Upcoming)
                        /\ MateSlots(Upcoming) # {}))
        /\ phase = "yielded" => manual' = manual
        /\ Len(manual') = Len(manual) + 1 =>
               /\ manual'[Len(manual')] = [toolchange |-> toolchanges[pos + 1], ams |-> ams]
               /\ ams' = ams /\ pos' = pos
        /\ \A i \in DOMAIN manual : manual'[i] = manual[i]
      ]_vars

\* C2 witness: a record yielded earlier holds a slot array that the slot
\* array has since moved away from
C2_Witness ==
    /\ Len(manual) >= 2
    /\ manual[1].ams # ams
    /\ manual[1].ams # manual[2].ams
    /\ raised = "none"

\* C3: a simulator transition overwrites the first slot holding a filament of
\* the next filament's group and leaves the other slots alone; with no such
\* slot and room left it appends the next filament; with no such slot and a
\* full array it fails with the capacity error and leaves the array alone.
\* The step that only yields a record is no slot update: it leaves the array
\* and the exception alone.
C3_TransitionCases ==
    [][ IF phase' = "yielded"
        THEN ams' = ams /\ raised' = raised /\ pos' = pos
        ELSE IF MateSlots(Upcoming) # {}
        THEN LET first == CHOOSE i \in MateSlots(Upcoming) :
                              \A h \in MateSlots(Upcoming) : i <= h
             IN  /\ raised' = "none"
                 /\ Len(ams') = Len(ams)
                 /\ \A i \in DOMAIN ams :
                        ams'[i] = IF i = first THEN Upcoming ELSE ams[i]
        ELSE IF Len(ams) < ams_size
        THEN /\ raised' = "none"
             /\ Len(ams') = Len(ams) + 1
             /\ ams'[Len(ams')] = Upcoming
             /\ \A i \in DOMAIN ams : ams'[i] = ams[i]
        ELSE raised' = "ValueError: capacity" /\ ams' = ams
      ]_vars

\* C3 witness: a pass that appended, overwrote a slot and then failed on a full
\* array
C3_Witness ==
    /\ raised = "ValueError: capacity"
    /\ Len(ams) = ams_size
    /\ Len(ams) < pos
    /\ \E i \in DOMAIN ams : ams[i] # toolchanges[i].next_filament

\* C9 as stated: with at most ams_size distinct filaments in the stream, no
\* manual change and no capacity error, whatever the grouping.
C9_AnyGrouping ==
    Cardinality(Used) <= ams_size => manual = <<>> /\ raised = "none"

\* C9 amended: with at most ams_size distinct filaments in the stream the pass
\* never raises the capacity error, whatever the grouping, and it yields no
\* manual change when no two distinct filaments of the stream share a group.
C9_NoManualWhenUngrouped ==
    Cardinality(Used) <= ams_size =>
        /\ raised = "none"
        /\ (\A a, b \in Used : a # b => ~SameGroup(a, b)) => manual = <<>>

\* C9 witness: a finished pass over several filaments that fit the AMS, under
\* a grouping that groups none of them together, with no manual change
C9_Witness ==
    /\ pos = Len(toolchanges) /\ pos >= 3
    /\ Cardinality(Used) >= 2 /\ Cardinality(Used) <= ams_size
    /\ \A a, b \in Used : a # b => ~SameGroup(a, b)
    /\ \E g \in DOMAIN filament_grouping : Len(filament_grouping[g]) >= 2
    /\ manual = <<>> /\ raised = "none"

\* C10: the slot array never holds more than ams_size filaments and no
\* transition shortens it.
C10_SlotsBoundedAndGrowing ==
    /\ [](Len(ams) <= ams_size)
    /\ [][Len(ams') >= Len(ams)]_vars

\* C10 witness: a full array that went on being overwritten
C10_Witness ==
    /\ Len(ams) = ams_size /\ ams_size >= 2
    /\ pos > ams_size
    /\ raised = "none"

\* C11 as stated: while fewer than ams_size slots are occupied no transition
\* replaces the occupant of an occupied slot with a different filament.
C11_AppendOnlyUntilFull ==
    [][Len(ams) < ams_size => \A i \in DOMAIN ams : ams'[i] = ams[i]]_vars

\* C11 amended: no transition removes a slot, and a transition replaces the
\* occupant of an occupied slot with a different filament only when that
\* occupant is in the group of the next filament, whether or not the array is
\* full; the new occupant is the next filament and the array keeps its length.
C11_OverwriteOnlyGroupMates ==
    [][ /\ Len(ams') >= Len(ams)
        /\ \A i \in DOMAIN ams :
               ams'[i] # ams[i] =>
                   /\ SameGroup(ams[i], Upcoming)
                   /\ ams'[i] = Upcoming
                   /\ Len(ams') = Len(ams)
      ]_vars

\* C11 witness: an array with room left in which an occupied slot has changed
\* its occupant since the first manual change was yielded
C11_Witness ==
    /\ manual # <<>> /\ raised = "none"
    /\ Len(ams) < ams_size
    /\ \E i \in DOMAIN manual[1].ams : ams[i] # manual[1].ams[i]

\* ------------------------------------------------- partitions, as sets

\* the set partitions of S into exactly k non-empty blocks of at most limit
\* elements, from the assignments of the elements to k labelled blocks
SetPartitions(S, k, limit) ==
    LET Block(f, b) == {x \in S : f[x] = b}
        ok == {f \in [S -> 1..k] :
                  \A b \in 1..k :
                      /\ Block(f, b) # {}
                      /\ limit # None => Cardinality(Block(f, b)) <= limit}
    IN  {{Block(f, b) : b \in 1..k} : f \in ok}

PartitionsUpTo(S, k, limit) == UNION {SetPartitions(S, j, limit) : j \in 1..k}

\* a list of lists as the set of sets it holds
AsSets(p) == {Range(p[g]) : g \in DOMAIN p}

\* a list of lists that holds every element of its lists once
Disjoint(p) == Len(Flatten(p)) = Cardinality(Range(Flatten(p)))

RECURSIVE SetToSeq(_)
SetToSeq(S) ==
    IF S = {} THEN <<>> ELSE LET x == CHOOSE y \in S : TRUE IN <<x>> \o SetToSeq(S \ {x})

\* the manual changes of a pass over the stream under the set partition P
ManualCount(P) ==
    CountManual(toolchanges,
                FilamentGrouping([i \in 1..Cardinality(P) |-> SetToSeq(SetToSeq(P)[i])]),
                ams_size).count

\* C4 as stated: find_best_mapping returns a partition of the filaments into at
\* most ams_size groups of at most max_group_size, whose manual-change count is
\* the least over all such partitions, with that count and the number of tool
\* changes.
C4_BestOverAtMostAmsSize ==
    LET all == PartitionsUpTo(Range(filament_ids), ams_size, max_group_size)
    IN  (phase = "returned" /\ all # {}) =>
            /\ result # <<>>
            /\ AsSets(result[1].grouping) \in all
            /\ result[1].manual = ManualCount(AsSets(result[1].grouping))
            /\ \A P \in all : result[1].manual <= ManualCount(P)
            /\ result[1].total = Len(toolchanges)

\* C5 as stated: in the scenario with ams_size 2 and max_group_size 2 a
\* grouping is returned, its count is the least achievable and a new pass with
\* it yields that count.
C5_ScenarioReturnsGrouping ==
    (phase = "returned" /\ ams_size = 2 /\ max_group_size = 2) =>
        /\ result # <<>>
        /\ \A P \in PartitionsUpTo(Range(filament_ids), ams_size, max_group_size) :
               result[1].manual <= ManualCount(P)
        /\ CountManual(toolchanges, result[1].grouping, ams_size).count = result[1].manual

\* C5 amended: in the scenario with ams_size 2, max_group_size 2 gives no
\* mapping; a max_group_size of 3 or more, or none, gives a grouping whose
\* count is the least over the partitions into at most two groups within the
\* limit, and a new pass with it yields that count.
C5_ScenarioNoMappingUnderTwo ==
    (phase = "returned" /\ ams_size = 2) =>
        IF max_group_size \in {1, 2} THEN result = <<>>
        ELSE /\ result # <<>>
             /\ AsSets(result[1].grouping)
                    \in SetPartitions(Range(filament_ids), ams_size, max_group_size)
             /\ \A P \in PartitionsUpTo(Range(filament_ids), ams_size, max_group_size) :
                    result[1].manual <= ManualCount(P)
             /\ CountManual(toolchanges, result[1].grouping, ams_size).count
                    = result[1].manual

\* C5 witness: the scenario as given has returned no mapping without trying a
\* candidate
C5_Witness ==
    /\ phase = "returned" /\ ams_size = 2 /\ max_group_size = 2
    /\ filament_ids = ScenarioFilaments /\ Len(toolchanges) = Len(ScenarioChanges)
    /\ yielded = 0 /\ result = <<>>

\* C6: what unique_k_partition yields are partitions of the collection into
\* exactly k non-empty groups of at most max_group_size elements, no two of
\* them the same partition, and once it is exhausted it has yielded every such
\* partition.
C6_ExactlyTheKPartitions ==
    phase = "partition" =>
        LET all == SetPartitions(Range(filament_ids), ams_size, max_group_size)
        IN  /\ \A i \in DOMAIN result :
                   /\ Len(result[i]) = ams_size
                   /\ Disjoint(result[i])
                   /\ AsSets(result[i]) \in all
            /\ \A i, j \in DOMAIN result : i < j => AsSets(result[i]) # AsSets(result[j])
            /\ yielded = Len(unique_k_partition(filament_ids, ams_size, max_group_size))
                   => {AsSets(result[i]) : i \in DOMAIN result} = all

\* C6 witness: an exhausted generator whose size limit ruled partitions out
C6_Witness ==
    /\ phase = "partition"
    /\ yielded = Len(unique_k_partition(filament_ids, ams_size, max_group_size))
    /\ Len(result) = yielded /\ yielded >= 3
    /\ max_group_size = 2
    /\ yielded < Cardinality(SetPartitions(Range(filament_ids), ams_size, None))

\* the candidates of the search and their manual-change counts
Cands == Candidates(filament_ids, ams_size, max_group_size)
RECURSIVE CountsFrom(_, _)
CountsFrom(c, i) ==
    IF i > Len(c) THEN <<>>
    ELSE <<CountManual(toolchanges, FilamentGrouping(c[i]), ams_size).count>>
         \o CountsFrom(c, i + 1)

\* the last of the first n entries of counts with the least count among them
LastBest(counts, n) ==
    CHOOSE i \in 1..n :
        /\ \A j \in 1..n : counts[i] <= counts[j]
        /\ \A j \in 1..n : counts[j] = counts[i] => j <= i

\* the candidate puts the first filament in a group of its own
FirstAlone(p) == \E g \in DOMAIN p : p[g] = <<filament_ids[1]>>

\* C7: after any number of candidates the best kept is the last of those with
\* the least count, and so is the grouping returned; the candidates that merge
\* the first filament into a group all come before those that give it a group
\* of its own.
C7_LastMinimalWins ==
    phase \in {"optimize", "returned"} =>
        \A c \in {Cands} : \A counts \in {CountsFrom(c, 1)} :
            /\ yielded >= 1 =>
                   /\ best_combination
                          = Some(FilamentGrouping(c[LastBest(counts, yielded)]))
                   /\ best_manual_changes = counts[LastBest(counts, yielded)]
            /\ (phase = "returned" /\ c # <<>>) =>
                   /\ result # <<>>
                   /\ result[1].grouping
                          = FilamentGrouping(c[LastBest(counts, Len(c))])
            /\ \A i, j \in DOMAIN c : (i < j /\ FirstAlone(c[i])) => FirstAlone(c[j])

\* C7 witness: a returned search in which an earlier candidate had the same
\* least count as the grouping returned, and candidates of both kinds
C7_Witness ==
    /\ phase = "returned" /\ result # <<>>
    /\ result[1].manual >= 1
    /\ \E c \in {Cands} : \E counts \in {CountsFrom(c, 1)} :
           \E i, j \in DOMAIN c :
               /\ i < j
               /\ counts[i] = result[1].manual /\ counts[j] = result[1].manual
               /\ FilamentGrouping(c[i]) # FilamentGrouping(c[j])
               /\ result[1].grouping = FilamentGrouping(c[j])
               /\ ~FirstAlone(c[i]) /\ FirstAlone(c[j])

\* ------------------------------------------------------------ the rewrite

\* the positions of the tool-change commands of a stream that load a filament
LoadPositions(s) ==
    SelectSeq([i \in DOMAIN s |-> i],
              LAMBDA i : s[i].op = "T" /\ s[i].arg \notin Sentinels)

PauseCount(s) == Cardinality({i \in DOMAIN s : s[i] = pause_gcode})

\* the pause commands of s after position a and before position b
PausesBetween(s, a, b) ==
    Cardinality({i \in DOMAIN s : a < i /\ i < b /\ s[i] = pause_gcode})

\* tool change k of the stream was yielded as manual
IsManualChange(k) == \E i \in DOMAIN manual : manual[i].toolchange = toolchanges[k]

\* C1 as stated: the stream GCode.write produces keeps the loading tool-change
\* commands of the input in order, has one more pause command than the input
\* for each manual change, that pause standing between the previous loading
\* command and the loading command of the manual change, has no pause before
\* the loading command of any other change, and equals the input when there
\* is no manual change.
C1_OnePausePerManualChange ==
    phase = "written" =>
        LET at == LoadPositions(data)
        IN  /\ Len(at) = Len(toolchanges)
            /\ \A k \in DOMAIN at :
                   /\ data[at[k]].arg = toolchanges[k].next_filament
                   /\ PausesBetween(data, IF k = 1 THEN 0 ELSE at[k - 1], at[k])
                          = PausesBetween(gcode,
                                IF k = 1 THEN 0 ELSE toolchanges[k - 1].index + 1,
                                toolchanges[k].index + 1)
                            + (IF IsManualChange(k) THEN 1 ELSE 0)
            /\ PauseCount(data) = PauseCount(gcode) + Len(manual)
            /\ manual = <<>> => data = gcode

\* ------------------------------------------------- grouping construction

\* some filament is in two or more of the groups of the command line
InTwoGroups ==
    \E i, j \in DOMAIN grouped_filaments :
        i < j /\ Range(grouped_filaments[i]) \cap Range(grouped_filaments[j]) # {}

\* every id of the command line is one the metadata lists
IdsKnown == Range(Flatten(grouped_filaments)) \subseteq Range(filament_ids)

\* C17 as stated: constructing the grouping from groups of known ids fails
\* with the duplicate-membership error if and only if some filament is in two
\* or more of the groups given, and succeeds in every other case.
C17_FailsIffInTwoGroups ==
    (phase \in {"grouped", "failed"} /\ IdsKnown) =>
        /\ raised = "ValueError: multiple groups" <=> InTwoGroups
        /\ ~InTwoGroups => phase = "grouped"

LeastId(group) == CHOOSE x \in Range(group) : \A y \in Range(group) : x <= y

\* C18 as stated: the stored groups are in order of ascending size, and those
\* of equal size in order of ascending least id.
C18_BySizeThenLeastId ==
    phase = "grouped" =>
        \A i, j \in DOMAIN filament_grouping :
            i < j =>
                \/ Len(filament_grouping[i]) < Len(filament_grouping[j])
                \/ /\ Len(filament_grouping[i]) = Len(filament_grouping[j])
                   /\ LeastId(filament_grouping[i]) < LeastId(filament_grouping[j])

\* where a stored group stood in the constructor's input: the groups of the
\* command line in the order given, then one group for each filament they do
\* not name, in the metadata's order
InputRank(group) ==
    IF \E k \in DOMAIN grouped_filaments : Range(grouped_filaments[k]) = Range(group)
    THEN CHOOSE k \in DOMAIN grouped_filaments :
             Range(grouped_filaments[k]) = Range(group)
    ELSE Len(grouped_filaments)
         + (CHOOSE n \in DOMAIN filament_ids : filament_ids[n] = group[1])

\* C18 amended: the stored groups are in order of ascending size, those of
\* equal size in the order the constructor was given them, each group in order
\* of ascending id, and every filament of the metadata is in exactly one.
C18_BySizeThenInputOrder ==
    phase = "grouped" =>
        /\ \A i, j \in DOMAIN filament_grouping :
               i < j =>
                   \/ Len(filament_grouping[i]) < Len(filament_grouping[j])
                   \/ /\ Len(filament_grouping[i]) = Len(filament_grouping[j])
                      /\ InputRank(filament_grouping[i]) < InputRank(filament_grouping[j])
        /\ \A g \in DOMAIN filament_grouping :
               \A a, b \in DOMAIN filament_grouping[g] :
                   a < b => filament_grouping[g][a] < filament_grouping[g][b]
        /\ \A f \in Range(filament_ids) :
               Cardinality({g \in DOMAIN filament_grouping :
                               f \in Range(filament_grouping[g])}) = 1
        /\ Range(Flatten(filament_grouping)) = Range(filament_ids)

\* C18 witness: a grouping built from several groups, which stores two groups
\* of equal size with the greater least id first
C18_Witness ==
    /\ phase = "grouped"
    /\ Len(grouped_filaments) >= 2
    /\ \E i, j \in DOMAIN filament_grouping :
           /\ i < j
           /\ Len(filament_grouping[i]) = Len(filament_grouping[j])
           /\ LeastId(filament_grouping[i]) > LeastId(filament_grouping[j])

\* ------------------------------------------------------ block transformer

IsArm(line) == line.op = "M620A"
IsWrapper(line) == line.op = "M620.1"
IsToolChange(line) == line.op = "T"
IsOther(line) == ~IsArm(line) /\ ~IsWrapper(line) /\ ~IsToolChange(line)

\* the arm command seen last before position p of the block
ArmBefore(block, p) ==
    CHOOSE a \in DOMAIN block :
        /\ a < p /\ IsArm(block[a])
        /\ \A b \in DOMAIN block : (b < p /\ IsArm(block[b])) => b <= a

\* C15: the transformer turns the minimal block into the start marker,
\* M620 S255, then in place of T3 the lines T255, M621 S255, M400 U1,
\* G1 X100 F5000, G1 X165 F15000, G1 Y256, M400, M620 S3A, M620.1 E F523 T240,
\* T3, M620.1 E F523 T240, then the end marker; and for any accepted block the
\* arm commands of the output are, for each tool-change line of the input in
\* order, the arm command seen last before it.
C15_MinimalBlock ==
    phase = "transformed" =>
        /\ filament_change_gcode = MinimalBlock =>
               result = << START, Line("M620S255", 0),
                           Line("T", 255), Line("M621S255", 0), Line("M400U1", 0),
                           Line("G1", 1), Line("G1", 2), Line("G1", 3),
                           Line("M400", 0), Line("M620A", 3), Line("M620.1", 0),
                           Line("T", 3), Line("M620.1", 0), END >>
        /\ LET at == SelectSeq([i \in DOMAIN filament_change_gcode |-> i],
                               LAMBDA i : IsToolChange(filament_change_gcode[i]))
           IN  SelectSeq(result, IsArm)
                   = [k \in DOMAIN at |->
                         filament_change_gcode[ArmBefore(filament_change_gcode, at[k])]]

\* C15 witness: the minimal block, transformed
C15_Witness ==
    /\ phase = "transformed"
    /\ filament_change_gcode = MinimalBlock
    /\ Len(result) = 14

\* the positions of the output that hold the lines put in place of a
\* tool-change line: eleven from each unload command
Inserted(out) ==
    UNION {i..(i + 10) : i \in {j \in DOMAIN out :
               /\ out[j] = Line("T", 255)
               /\ j + 1 \in DOMAIN out /\ out[j + 1] = Line("M621S255", 0)}}

\* the output without the lines put in place of the tool-change lines and of
\* the arm commands
PassedThrough(out) ==
    LET keep == SelectSeq([i \in DOMAIN out |-> i],
                          LAMBDA i : i \notin Inserted(out) /\ out[i] # Line("M620S255", 0))
    IN  [k \in DOMAIN keep |-> out[keep[k]]]

\* C16: for an accepted block, the lines that are no arm command, wrapper or
\* tool-change line pass through once each, unchanged and in order; the
\* output holds nothing else but one line per arm command and eleven per
\* tool-change line; and a wrapper line stands only right before or right
\* after a restored tool-change command, which follows the restored arm
\* command.
C16_OtherLinesPassThrough ==
    phase = "transformed" =>
        LET in == filament_change_gcode
            tools == Cardinality({i \in DOMAIN in : IsToolChange(in[i])})
            arms == Cardinality({i \in DOMAIN in : IsArm(in[i])})
        IN  /\ PassedThrough(result) = SelectSeq(in, IsOther)
            /\ Len(result) = Len(SelectSeq(in, IsOther)) + arms + 11 * tools
            /\ Len(SelectSeq(result, IsWrapper)) = 2 * tools
            /\ \A i \in DOMAIN result :
                   IsWrapper(result[i]) =>
                       \/ /\ i - 1 \in DOMAIN result /\ IsArm(result[i - 1])
                          /\ i + 1 \in DOMAIN result /\ IsToolChange(result[i + 1])
                          /\ i + 2 \in DOMAIN result /\ IsWrapper(result[i + 2])
                       \/ /\ i - 1 \in DOMAIN result /\ IsToolChange(result[i - 1])
                          /\ i - 2 \in DOMAIN result /\ IsWrapper(result[i - 2])
                          /\ i - 3 \in DOMAIN result /\ IsArm(result[i - 3])

\* C16 witness: a transformed block with a wrapper line away from its
\* tool-change line, and a line that passes through, M400, which the
\* transformer also inserts
C16_Witness ==
    /\ phase = "transformed"
    /\ \E i \in DOMAIN filament_change_gcode :
           /\ IsWrapper(filament_change_gcode[i])
           /\ ~IsToolChange(filament_change_gcode[i + 1])
           /\ ~IsToolChange(filament_change_gcode[i - 1])
    /\ \E i \in DOMAIN filament_change_gcode : filament_change_gcode[i] = Line("M400", 0)
    /\ \E i \in DOMAIN filament_change_gcode : IsToolChange(filament_change_gcode[i])

\* ------------------------------------------------------------ the scanner

\* C20 as stated: for every tool change the scanner emitted with a block start
\* recorded, the block start is a start marker after the previous tool-change
\* command and before this one, and the block end is the first end marker at
\* or after this command; the spans from block start to block end of distinct
\* tool changes do not overlap and no block start is recorded twice.
C20_SpansBracketToolChange ==
    phase \in {"constructed", "written"} =>
        /\ \A k \in DOMAIN toolchanges :
               LET tc == toolchanges[k]
                   previous == IF k = 1 THEN -1 ELSE toolchanges[k - 1].index
               IN  /\ tc.start_index # None =>
                          /\ gcode[tc.start_index + 1] = START
                          /\ previous < tc.start_index
                          /\ tc.start_index < tc.index
                   /\ gcode[tc.end_index + 1] = END
                   /\ tc.index <= tc.end_index
                   /\ \A j \in tc.index..(tc.end_index - 1) : gcode[j + 1].op # "END"
        /\ \A k, l \in DOMAIN toolchanges :
               (k < l /\ toolchanges[k].start_index # None
                      /\ toolchanges[l].start_index # None) =>
                   /\ toolchanges[k].end_index < toolchanges[l].start_index
                   /\ toolchanges[k].start_index # toolchanges[l].start_index

\* ------------------------------------------------------ the conflict report

\* list_conflicts has run
Listed == phase \in {"coalescing", "reported", "written"}

\* the tool change is in the lists of toolchange_conflicts
Recorded(tc) ==
    \E k \in DOMAIN toolchange_conflicts :
        \E n \in DOMAIN toolchange_conflicts[k].tcs :
            toolchange_conflicts[k].tcs[n] = tc

\* the simulation yielded the tool change as manual
YieldedManual(tc) == \E i \in DOMAIN manual : manual[i].toolchange = tc

\* C12: list_conflicts records a tool change if and only if the simulation
\* yielded it as manual, its current filament is not none and its current and
\* its next filament are in one group; it records it once, under its layer,
\* and every layer it lists once.
C12_ConflictIffManualAndGrouped ==
    Listed =>
        /\ \A t \in DOMAIN toolchanges :
               Recorded(toolchanges[t]) <=>
                   /\ YieldedManual(toolchanges[t])
                   /\ toolchanges[t].current_filament # None
                   /\ SameGroup(toolchanges[t].current_filament,
                                toolchanges[t].next_filament)
        /\ \A k \in DOMAIN toolchange_conflicts :
               /\ toolchange_conflicts[k].tcs # <<>>
               /\ \A n \in DOMAIN toolchange_conflicts[k].tcs :
                      /\ toolchange_conflicts[k].tcs[n].layer
                             = toolchange_conflicts[k].layer
                      /\ toolchange_conflicts[k].tcs[n] \in Range(toolchanges)
                      /\ \A m \in DOMAIN toolchange_conflicts[k].tcs :
                             m # n => toolchange_conflicts[k].tcs[m]
                                          # toolchange_conflicts[k].tcs[n]
               /\ \A j \in DOMAIN toolchange_conflicts :
                      j # k => toolchange_conflicts[j].layer
                                   # toolchange_conflicts[k].layer

\* C12 witness: a run with a manual change that is recorded, a manual change
\* that is not, and a tool change after the first that is not manual
C12_Witness ==
    /\ Listed
    /\ \E i \in DOMAIN manual : Recorded(manual[i].toolchange)
    /\ \E i \in DOMAIN manual : ~Recorded(manual[i].toolchange)
    /\ \E t \in DOMAIN toolchanges :
           /\ ~YieldedManual(toolchanges[t])
           /\ toolchanges[t].current_filament # None

\* the pairs of an item of toolchange_conflicts
PairsOf(item) ==
    {<<item.tcs[n].current_filament, item.tcs[n].next_filament>> :
        n \in DOMAIN item.tcs}

Distance(a, b) == IF a <= b THEN b - a ELSE a - b

\* C13 as stated: a conflict layer is merged into the open range if and only
\* if it differs from the conflict layer before it by at most 1 and its pairs
\* are all among the pairs of the open range; otherwise the open range is
\* logged with its start layer, the last conflict layer merged into it and its
\* set of pairs, and a new range starts at that layer; the range left open at
\* the end is logged the same way.
C13_MergeIffAdjacentAndSubset ==
    [][ /\ (phase = "coalescing" /\ consumed' = consumed + 1 /\ consumed >= 1) =>
               LET item == toolchange_conflicts[consumed + 1]
                   before == toolchange_conflicts[consumed]
               IN  IF /\ Distance(item.layer, before.layer) <= 1
                      /\ PairsOf(item) \subseteq Range(conflicts)
                   THEN /\ logged' = logged
                        /\ first_layer' = first_layer
                        /\ Range(conflicts') = Range(conflicts) \cup PairsOf(item)
                   ELSE /\ logged' = Append(logged,
                                            [first_layer |-> first_layer,
                                             last_layer |-> before.layer,
                                             pairs |-> Range(conflicts)])
                        /\ first_layer' = item.layer
                        /\ Range(conflicts') = PairsOf(item)
        /\ (phase = "coalescing" /\ phase' = "reported" /\ consumed >= 1) =>
               logged' = Append(logged,
                                [first_layer |-> first_layer,
                                 last_layer |-> toolchange_conflicts[consumed].layer,
                                 pairs |-> Range(conflicts)])
      ]_vars

\* C14: conflicts 1 -> 5 in layer 5, 1 -> 5 in layer 6 and 2 -> 6 in layer 10
\* are reported as exactly two ranges: layers 5 to 6 with the pair (1, 5) and
\* layers 10 to 11 with the pair (2, 6).
C14_ExampleRanges ==
    (/\ phase \in {"reported", "written"}
     /\ [k \in DOMAIN toolchange_conflicts |->
            <<toolchange_conflicts[k].layer,
              conflict_pairs(toolchange_conflicts[k].tcs)>>]
          = << <<5, << <<1, 5>> >> >>, <<6, << <<1, 5>> >> >>,
               <<10, << <<2, 6>> >> >> >>) =>
        logged = << [first_layer |-> 5, last_layer |-> 6, pairs |-> {<<1, 5>>}],
                    [first_layer |-> 10, last_layer |-> 11, pairs |-> {<<2, 6>>}] >>

\* C14 witness: the run of the example has logged its ranges
C14_Witness ==
    /\ phase = "reported"
    /\ gcode = ExampleStream /\ grouped_filaments = ExampleGroups
    /\ Len(toolchange_conflicts) = 3
    /\ toolchange_conflicts[1].layer = 5 /\ toolchange_conflicts[2].layer = 6
    /\ toolchange_conflicts[3].layer = 10
    /\ PairsOf(toolchange_conflicts[1]) = {<<1, 5>>}
    /\ PairsOf(toolchange_conflicts[2]) = {<<1, 5>>}
    /\ PairsOf(toolchange_conflicts[3]) = {<<2, 6>>}
    /\ Len(logged) = 2

\* ------------------------------------------------------- fatal conditions

\* the positions (0-based) of the tool-change commands that load a filament
LoadingLines ==
    {i \in 0..(Len(gcode) - 1) :
        gcode[i + 1].op = "T" /\ gcode[i + 1].arg \notin Sentinels}

\* a loading tool change with no end marker after it, or whose next end
\* marker or last start marker carries text after the marker
MalformedMarkers ==
    \E i \in LoadingLines :
        LET ends == {j \in i..(Len(gcode) - 1) : gcode[j + 1].op = "END"}
            starts == {j \in 0..i : gcode[j + 1].op = "START"}
        IN  \/ ends = {}
            \/ gcode[(CHOOSE j \in ends : \A h \in ends : j <= h) + 1] # END
            \/ /\ starts # {}
               /\ gcode[(CHOOSE j \in starts : \A h \in starts : h <= j) + 1] # START

\* a loading tool change of a filament id the metadata does not list
UnmappedToolChange ==
    \E i \in LoadingLines : gcode[i + 1].arg \notin Range(filament_ids)

\* the group of a filament under the groups of the command line
UserGroupOf(f) ==
    IF \E k \in DOMAIN grouped_filaments : f \in Range(grouped_filaments[k])
    THEN Range(grouped_filaments[CHOOSE k \in DOMAIN grouped_filaments :
                                    f \in Range(grouped_filaments[k])])
    ELSE {f}

\* the command line gives groups and the stream loads filaments of more groups
\* than the AMS has slots
CapacityExceeded ==
    /\ Len(grouped_filaments) > 0
    /\ Cardinality({UserGroupOf(gcode[i + 1].arg) : i \in LoadingLines}) > ams_size

\* a manual change that is a conflict, with a block start of its own, whose
\* block holds a tool-change line before any arm command; the manual changes
\* before it each end before the next one's command
RejectedBlock ==
    \E k \in DOMAIN manual :
        LET tc == manual[k].toolchange
        IN  /\ tc.current_filament # None
            /\ SameGroup(tc.current_filament, tc.next_filament)
            /\ tc.start_index # None
            /\ \A j \in 1..(k - 1) :
                   manual[j].toolchange.end_index < manual[j + 1].toolchange.index
            /\ k > 1 => manual[k - 1].toolchange.end_index < tc.start_index
            /\ \E t \in tc.start_index..tc.end_index :
                   /\ gcode[t + 1].op = "T"
                   /\ \A a \in tc.start_index..(t - 1) : gcode[a + 1].op # "M620A"

\* C19: the rewritten stream is written only by a run in which none of the
\* fatal conditions holds: malformed or missing block markers, a tool change
\* of an unmapped filament id, a filament in two groups, more groups in use
\* than slots under the groups of the command line, a block the transformer
\* rejects; a run that raises ends without having written anything.
C19_FatalBeforeWrite ==
    /\ phase = "written" =>
           /\ ~MalformedMarkers
           /\ ~UnmappedToolChange
           /\ ~InTwoGroups
           /\ ~CapacityExceeded
           /\ ~RejectedBlock
           /\ raised = "none"
    /\ raised # "none" => phase = "failed"
    /\ phase # "written" => data = <<>>

\* C19 witness: a run that went as far as write and failed there, on a block
\* the transformer rejects, with nothing written
C19_Witness ==
    /\ phase = "failed"
    /\ raised = "ValueError: next extruder"
    /\ RejectedBlock
    /\ logged # <<>>
    /\ data = <<>>

\* ---------------------------------------------------- what write replaces

\* the manual changes write is to replace by the transformer's output: the
\* conflicts whose block start is known
Replaceable ==
    {k \in DOMAIN manual :
        /\ manual[k].toolchange.current_filament # None
        /\ SameGroup(manual[k].toolchange.current_filament,
                     manual[k].toolchange.next_filament)
        /\ manual[k].toolchange.start_index # None}

\* what stands in the rewritten stream for line idx (0-based) of the input
RewrittenLine(idx) ==
    LET begun == {k \in Replaceable : manual[k].toolchange.start_index = idx}
        inside == {k \in Replaceable :
                      /\ manual[k].toolchange.start_index < idx
                      /\ idx <= manual[k].toolchange.end_index}
        paused == {k \in DOMAIN manual \ Replaceable :
                      manual[k].toolchange.index = idx}
    IN  IF begun # {}
        THEN LET k == CHOOSE k \in begun : \A h \in begun : k <= h
             IN  paused_filament_change(
                     Slice(gcode, idx, manual[k].toolchange.end_index + 1)).result
        ELSE IF inside # {} THEN <<>>
        ELSE IF paused # {} THEN <<pause_gcode, gcode[idx + 1]>>
        ELSE <<gcode[idx + 1]>>

\* C21 as stated: the rewritten stream is the input stream in which the block
\* of every manual change that is a conflict with a known block start, from
\* that start through its end, is replaced once by the transformer's output,
\* every other manual change has one pause line before its tool-change line,
\* and every other line is copied once, in order.
C21_ReplaceOrPause ==
    phase = "written" =>
        data = Flatten([i \in 1..Len(gcode) |-> RewrittenLine(i - 1)])

\* ------------------------------------------------------- initial load-out

\* the tool changes that fill a slot: those loading the first filament of a
\* group the stream has not loaded from before
FillsSlot(k) ==
    \A j \in 1..(k - 1) :
        ~SameGroup(toolchanges[j].next_filament, toolchanges[k].next_filament)

\* the filament first placed in each slot the pass fills, in slot order
FirstPlaced ==
    LET fills == SelectSeq([k \in DOMAIN toolchanges |-> k], LAMBDA k : FillsSlot(k))
    IN  [s \in 1..Min2(Len(fills), ams_size) |-> toolchanges[fills[s]].next_filament]

\* C22 as stated: find_first_full_ams returns, for every slot the simulation
\* pass ever fills, in slot order and capped at ams_size entries, the filament
\* first placed in that slot.
C22_InitialLoadOut ==
    phase = "returned" => result = FirstPlaced

\* ------------------------------------------------- the slot array's shape

\* C23: under a grouping that puts every filament in exactly one group, the
\* slot array never holds two filaments of one group (so no filament is in
\* two slots), and after every transition that succeeded the filament it
\* loaded is in a slot.
C23_OnePerGroupNextResident ==
    /\ \A i, j \in DOMAIN ams : i # j => ~SameGroup(ams[i], ams[j])
    /\ pos > 0 => In(toolchanges[pos].next_filament, ams)

\* C23 witness: a finished pass over a grouping with a group of two, both
\* printed, that filled two slots and overwrote one of them
C23_Witness ==
    /\ pos = Len(toolchanges) /\ pos > 0
    /\ Len(ams) >= 2
    /\ manual # <<>>
    /\ \E k \in DOMAIN toolchanges :
           /\ ~In(toolchanges[k].next_filament, ams)
           /\ \E i \in DOMAIN ams : SameGroup(ams[i], toolchanges[k].next_filament)

\* ------------------------------------------------------ the capacity error

\* C24: under a grouping of at most ams_size groups that holds every filament
\* the tool changes name, the pass never raises the capacity error; so the
\* pass of no candidate that find_best_mapping takes from
\* unique_k_partition(all_filaments, ams_size, max_group_size) fails.  The
\* candidates do not depend on the grouping in use: they are tried once for
\* each stream and AMS size, in the initial state under the grouping of one
\* group.
C24_NoCapacityErrorWithinSlots ==
    /\ (/\ Len(filament_grouping) <= ams_size
        /\ Used \subseteq Range(Flatten(filament_grouping))) =>
           raised = "none"
    /\ (pos = 0 /\ Len(filament_grouping) = 1) =>
           \A limit \in Limits(NumFilaments) :
               \A c \in Range(Candidates(filament_ids, ams_size, limit)) :
                   iter_manual_toolchanges(toolchanges, FilamentGrouping(c),
                                           ams_size).raised = "none"

\* C24 witness: a finished pass under a grouping of as many groups as slots,
\* every slot filled, more filaments printed than there are slots
C24_Witness ==
    /\ pos = Len(toolchanges)
    /\ Len(filament_grouping) = ams_size
    /\ Len(ams) = ams_size
    /\ Cardinality(Used) > ams_size
    /\ manual # <<>>
    /\ raised = "none"

\* ------------------------------------------------ conflicts and the swap

\* C25: every manual tool change has a current filament, which is in the slot
\* array recorded before the change, and the change is a conflict if and only
\* if the filament inform_user tells the operator to swap out is that current
\* filament.
C25_ConflictIffSwappingCurrent ==
    \A i \in DOMAIN manual :
        LET tc == manual[i].toolchange
            told == inform_user(manual[i], filament_grouping)
        IN  /\ tc.current_filament # None
            /\ \E k \in DOMAIN toolchanges :
                   /\ k > 1 /\ toolchanges[k] = tc
                   /\ toolchanges[k - 1].next_filament = tc.current_filament
            /\ In(tc.current_filament, manual[i].ams)
            /\ told # <<>>
            /\ is_conflict(tc, filament_grouping) <=> told[1].swap = tc.current_filament

\* C25 witness: a pass that yielded a manual change that is a conflict and one
\* that is not
C25_Witness ==
    /\ \E i \in DOMAIN manual : is_conflict(manual[i].toolchange, filament_grouping)
    /\ \E i \in DOMAIN manual :
           /\ ~is_conflict(manual[i].toolchange, filament_grouping)
           /\ Len(manual[i].ams) >= 2

\* ------------------------------------------------------------- no mapping

\* C26: for a non-empty set of n filaments and a positive group size limit (or
\* none), find_best_mapping returns None if and only if the filaments have no
\* partition into exactly ams_size non-empty groups of at most max_group_size
\* filaments, that is if and only if n < ams_size or max_group_size is given
\* and n > ams_size * max_group_size; a grouping it returns has exactly
\* ams_size groups.
C26_NoMappingIffNoExactPartition ==
    phase = "returned" =>
        LET n == Len(filament_ids)
            no_mapping == result = <<>>
        IN  /\ no_mapping <=>
                   SetPartitions(Range(filament_ids), ams_size, max_group_size) = {}
            /\ no_mapping <=>
                   \/ n < ams_size
                   \/ max_group_size # None /\ n > ams_size * max_group_size
            /\ ~no_mapping =>
                   /\ Len(result[1].grouping) = ams_size
                   /\ \A g \in DOMAIN result[1].grouping : result[1].grouping[g] # <<>>

\* C26 witness: a search over more filaments than slots, two slots or more,
\* that returned None because of the group size limit
C26_Witness ==
    /\ phase = "returned" /\ result = <<>>
    /\ ams_size >= 2 /\ Len(filament_ids) > ams_size
    /\ max_group_size # None
    /\ toolchanges # <<>>

====
